---- MODULE Spec2Model ----
(***************************************************************************)
(* A model of the chessica prototype: the packed piece encoding, the       *)
(* 64-square board, the move variants and their application               *)
(* (src/src/chess.rs), the FEN parser (src/src/fen.rs, and its older copy  *)
(* Board::parse_fen in src/src/chess.rs) and the pseudo-legal move         *)
(* generator (src/src/move_gen.rs).                                        *)
(*                                                                         *)
(* Squares are 0..63, index 0 = a8, index 63 = h1.  A text is a sequence   *)
(* of one-character strings.  An Option is <<>> (None) or <<v>> (Some v).  *)
(***************************************************************************)
EXTENDS Integers, Sequences, FiniteSets, TLC

VARIABLES
    pieces,             \* Board.pieces: [0..63 -> Piece]
    turn,               \* Board.turn: u16
    en_passant_target,  \* Board.en_passant_target: Option<usize>
    op,                 \* the last operation called on the board
    mv,                 \* the move handed to the last operation
    before,             \* the board as it was when the last operation was called
    capres,             \* what the last Move::capture returned
    nplays,             \* number of Board::play calls so far
    turn0,              \* Board.turn at construction
    fault,              \* "" or the message of the panic that ended the program
    fen,                \* the text handed to parse_board
    pc,                 \* where the running function stands
    fields,             \* fen.split_whitespace()
    ci,                 \* number of characters of the position field consumed
    pp,                 \* parse_position's locals: pieces, index, status
    pprev,              \* pp before the last character was consumed
    result,             \* what parse_board returned
    gcolor,             \* gen_pseudo_legal's color argument
    gi,                 \* gen_pseudo_legal's loop index
    moves               \* gen_pseudo_legal's moves vector

vars == <<pieces, turn, en_passant_target, op, mv, before, capres, nplays,
          turn0, fault, fen, pc, fields, ci, pp, pprev, result, gcolor, gi, moves>>

boardVars == <<pieces, turn, en_passant_target>>
playVars  == <<op, mv, before, capres, nplays, turn0>>
fenVars   == <<fen, fields, ci, pp, pprev, result>>
genVars   == <<gcolor, gi, moves>>

-----------------------------------------------------------------------------
(* Bounds of the model.                                                    *)

\* longest run of characters appended to a position-field prefix
MaxSuffix == 3
\* longest castling-rights field tried
MaxCastleLen == 4
\* most Board::play calls made on one board
MaxPlays == 3

-----------------------------------------------------------------------------
(* Piece (chess.rs 218-255): bit flags packed into a u16.                  *)

NONE   == 1
WHITE  == 2
BLACK  == 4
PAWN   == 8
KNIGHT == 16
BISHOP == 32
ROOK   == 64
QUEEN  == 128
KING   == 256
NO_PIECE == NONE

NUM_FILES == 8
NUM_RANKS == 8
NUM_SQUARES == 64

Squares == 0 .. (NUM_SQUARES - 1)

RECURSIVE BitAnd(_, _)
BitAnd(x, y) ==
    IF x = 0 \/ y = 0 THEN 0
    ELSE (x % 2) * (y % 2) + 2 * BitAnd(x \div 2, y \div 2)

COLOR_MASK == WHITE + BLACK

\* Piece::has: self.0 & flag != 0
has(p, flag) == BitAnd(p, flag) # 0

\* Piece::color: self.0 & COLOR_MASK
color(p) == BitAnd(p, COLOR_MASK)

\* Piece::kind: self.0 & !COLOR_MASK (a u16)
kind(p) == p - BitAnd(p, COLOR_MASK)

BLACK_BACK_RANK == 0 .. 7
BLACK_PAWN_RANK == 8 .. 15
WHITE_PAWN_RANK == 48 .. 55
WHITE_BACK_RANK == 56 .. 63

rank_of(pos) == pos \div 8
file_of(pos) == pos % 8
square_index(file, rank) == rank * 8 + file

EmptyPieces == [s \in Squares |-> NONE]

None == <<>>
Some(v) == <<v>>

-----------------------------------------------------------------------------
(* FEN parsing (fen.rs).                                                   *)

PieceChars == {"P", "N", "B", "R", "Q", "K", "p", "n", "b", "r", "q", "k"}

\* the letter arms of parse_position's match
FenPiece(c) ==
    CASE c = "P" -> WHITE + PAWN
      [] c = "N" -> WHITE + KNIGHT
      [] c = "B" -> WHITE + BISHOP
      [] c = "R" -> WHITE + ROOK
      [] c = "Q" -> WHITE + QUEEN
      [] c = "K" -> WHITE + KING
      [] c = "p" -> BLACK + PAWN
      [] c = "n" -> BLACK + KNIGHT
      [] c = "b" -> BLACK + BISHOP
      [] c = "r" -> BLACK + ROOK
      [] c = "q" -> BLACK + QUEEN
      [] c = "k" -> BLACK + KING

\* char::to_digit(radix) for the decimal digit characters; None otherwise
to_digit(c, radix) ==
    LET v == CASE c = "0" -> 0 [] c = "1" -> 1 [] c = "2" -> 2 [] c = "3" -> 3
               [] c = "4" -> 4 [] c = "5" -> 5 [] c = "6" -> 6 [] c = "7" -> 7
               [] c = "8" -> 8 [] c = "9" -> 9 [] OTHER -> radix
    IN  IF v < radix THEN Some(v) ELSE None

is_digit(c, radix) == to_digit(c, radix) # None

Whitespace == {" "}

RECURSIVE SplitFrom(_, _, _, _)
SplitFrom(s, i, cur, acc) ==
    IF i > Len(s)
    THEN IF cur = <<>> THEN acc ELSE Append(acc, cur)
    ELSE IF s[i] \in Whitespace
         THEN SplitFrom(s, i + 1, <<>>, IF cur = <<>> THEN acc ELSE Append(acc, cur))
         ELSE SplitFrom(s, i + 1, Append(cur, s[i]), acc)

\* str::split_whitespace: the maximal runs of non-whitespace characters
split_whitespace(s) == SplitFrom(s, 1, <<>>, <<>>)

PosStart == [pieces |-> EmptyPieces, index |-> 0, status |-> "run"]

\* one iteration of parse_position's loop over the field's characters
PosStep(st, c) ==
    IF c \in PieceChars
    THEN IF st.index >= NUM_SQUARES
         THEN [st EXCEPT !.status = "panic: index out of bounds"]
         ELSE [st EXCEPT !.pieces = [st.pieces EXCEPT ![st.index] = FenPiece(c)],
                         !.index = st.index + 1]
    ELSE IF is_digit(c, NUM_FILES + 1)
    THEN LET n == to_digit(c, NUM_FILES + 1)[1]
         IN  IF n > NUM_FILES - (st.index % NUM_FILES)
             THEN [st EXCEPT !.status = "err: no n empty fields left in the current rank"]
             ELSE [st EXCEPT !.index = st.index + n]
    ELSE IF c = "/"
    THEN IF st.index % 8 # 0
         THEN [st EXCEPT !.status = "err: rank not yet done at rank delimiter"]
         ELSE st
    ELSE [st EXCEPT !.status = "err: unexpected character in position field"]

RECURSIVE PosFold(_, _, _)
PosFold(st, field, i) ==
    IF i > Len(field) \/ st.status # "run" THEN st
    ELSE PosFold(PosStep(st, field[i]), field, i + 1)

\* parse_position as a function of the field
parse_position(field) == PosFold(PosStart, field, 1)

Ok(v)  == [tag |-> "Ok", val |-> v]
Err(m) == [tag |-> "Err", msg |-> m]

parse_turn_field(field) ==
    IF Len(field) # 1
    THEN Err("illegal second (turn) field")
    ELSE CASE field[1] = "w" -> Ok(WHITE)
           [] field[1] = "b" -> Ok(BLACK)
           [] OTHER -> Err("expected w or b as second field")

\* CastleType bits (move.rs 26-29)
BIT_BLACK_LONG  == 1
BIT_BLACK_SHORT == 2
BIT_WHITE_LONG  == 4
BIT_WHITE_SHORT == 8

\* the add_once! macro: result is Ok(bits) or Err
add_once_no_dup_check(res, bit, c) ==
    IF BitAnd(res, bit) = bit THEN Ok(res) ELSE Ok(res + bit)

add_once(res, bit, c) ==
    IF BitAnd(res, bit) = bit
    THEN Err("fen contains castle right twice")
    ELSE Ok(res + bit)

RECURSIVE CastleFold(_, _, _)
CastleFold(res, field, i) ==
    IF i > Len(field) THEN Ok(res)
    ELSE LET c == field[i]
             r == CASE c = "q" -> add_once(res, BIT_BLACK_LONG, c)
                    [] c = "k" -> add_once(res, BIT_BLACK_SHORT, c)
                    [] c = "Q" -> add_once(res, BIT_WHITE_LONG, c)
                    [] c = "K" -> add_once(res, BIT_WHITE_SHORT, c)
                    [] OTHER -> Err("unexpected character in castle rights field")
         IN  IF r.tag = "Err" THEN r ELSE CastleFold(r.val, field, i + 1)

\* parse_castle_field; the argument is an Option of a field
parse_castle_field(field) ==
    IF field = None
    THEN Ok(BIT_BLACK_LONG + BIT_BLACK_SHORT + BIT_WHITE_LONG + BIT_WHITE_SHORT)
    ELSE IF Len(field[1]) = 1 /\ field[1][1] = "-"
    THEN Ok(0)
    ELSE CastleFold(0, field[1], 1)

\* Board::new(pieces, turn, castle_rights)
Board_new(ps, t, cr) ==
    [pieces |-> ps, turn |-> t, castle_rights |-> cr, en_passant_target |-> None]

\* parse_board (fen.rs 23-39) as a function of the text; a panic is reported
\* as [tag |-> "Panic"]
parse_board(text) ==
    LET fs == split_whitespace(text)
    IN  IF Len(fs) < 1 THEN Err("non-empty fen string expected")
        ELSE IF Len(fs) < 2
        THEN Err("fen string expected to have at least first two fields")
        ELSE LET p == parse_position(fs[1])
                 t == parse_turn_field(fs[2])
                 c == parse_castle_field(IF Len(fs) >= 3 THEN Some(fs[3]) ELSE None)
             IN  IF p.status = "panic: index out of bounds"
                 THEN [tag |-> "Panic", msg |-> p.status]
                 ELSE IF p.status # "run" THEN Err(p.status)
                 ELSE IF t.tag = "Err" THEN t
                 ELSE IF c.tag = "Err" THEN c
                 ELSE Ok(Board_new(p.pieces, t.val, c.val))

-----------------------------------------------------------------------------
(* Texts handed to the parser.                                             *)

STARTING_FEN ==
    <<"r","n","b","q","k","b","n","r","/","p","p","p","p","p","p","p","p","/",
      "8","/","8","/","8","/","8","/","P","P","P","P","P","P","P","P","/",
      "R","N","B","Q","K","B","N","R"," ","w"," ","K","Q","k","q"," ","-"," ",
      "0"," ","1">>

StartPosField == SubSeq(STARTING_FEN, 1, 43)

FenSevenRanks == <<"8","/","8","/","8","/","8","/","8","/","8","/","8"," ","w">>
FenNoTurn     == <<"8","/","8","/","8","/","8","/","8","/","8","/","8">>
FenNineRanks  == FenNoTurn \o <<"/","8","/","8"," ","w">>
FenNine ==
    <<"r","n","b","q","k","b","n","r","/","p","p","p","p","p","p","p","p","/",
      "9","/","8","/","8","/","8","/","P","P","P","P","P","P","P","P","/",
      "R","N","B","Q","K","B","N","R"," ","w">>
FenBadTurn    == StartPosField \o <<" ","x">>
FenLongTurn   == StartPosField \o <<" ","w","b">>
FenDupCastle  == StartPosField \o <<" ","w"," ","K","Q","K","Q">>
FenNoCastle   == StartPosField \o <<" ","b"," ","-">>
FenTwoFields  == StartPosField \o <<" ","w">>
FenOverflow   == StartPosField \o <<"R"," ","w">>
FenCastleReady ==
    <<"r","3","k","2","r","/","8","/","8","/","8","/","8","/","8","/","8","/",
      "R","3","K","2","R"," ","w"," ","K","Q","k","q">>

FenFixtures ==
    {STARTING_FEN, FenSevenRanks, FenNoTurn, FenNineRanks, FenNine, FenBadTurn,
     FenLongTurn, FenDupCastle, FenNoCastle, FenTwoFields, FenOverflow,
     FenCastleReady, <<>>, <<" ">>}

SeqsUpTo(S, n) == UNION {[1 .. k -> S] : k \in 0 .. n}

PosAlphabet    == {"R", "p", "8", "1", "0", "9", "/", "x"}
CastleAlphabet == {"K", "Q", "k", "q", "-", "x"}

SevenRanks == <<"8","8","8","8","8","8","8">>

PosPrefixes == {<<>>, SevenRanks}

\* position fields: a prefix followed by up to MaxSuffix characters
PosInputs ==
    {pre \o s : pre \in PosPrefixes, s \in SeqsUpTo(PosAlphabet, MaxSuffix)} \ {<<>>}

CastleInputs == SeqsUpTo(CastleAlphabet, MaxCastleLen)

FenInputs ==
    FenFixtures
    \cup {p \o <<" ", "w">> : p \in PosInputs}
    \cup {<<"8", " ", "b", " ">> \o c : c \in CastleInputs}

-----------------------------------------------------------------------------
(* The parser as a state machine: SpecFen.                                 *)

InitFen ==
    /\ pieces = EmptyPieces /\ turn = WHITE /\ en_passant_target = None
    /\ op = "none" /\ mv = None /\ before = None /\ capres = None
    /\ nplays = 0 /\ turn0 = WHITE /\ fault = ""
    /\ fen \in FenInputs
    /\ pc = "parse_board" /\ fields = <<>> /\ ci = 0
    /\ pp = PosStart /\ pprev = PosStart /\ result = None
    /\ gcolor = WHITE /\ gi = 0 /\ moves = <<>>

\* parse_board, lines 25-32: split the text, require two fields
SplitFields ==
    /\ pc = "parse_board"
    /\ fields' = split_whitespace(fen)
    /\ IF Len(fields') < 1
       THEN result' = Some(Err("non-empty fen string expected")) /\ pc' = "done"
       ELSE IF Len(fields') < 2
       THEN /\ result' = Some(Err("fen string expected to have at least first two fields"))
            /\ pc' = "done"
       ELSE result' = result /\ pc' = "parse_position"
    /\ UNCHANGED <<boardVars, playVars, genVars, fault, fen, ci, pp, pprev>>

\* one iteration of parse_position's loop
PositionChar ==
    /\ pc = "parse_position"
    /\ ci < Len(fields[1])
    /\ ci' = ci + 1
    /\ pprev' = pp
    /\ pp' = PosStep(pp, fields[1][ci + 1])
    /\ IF pp'.status = "run"
       THEN UNCHANGED <<pc, result, fault>>
       ELSE IF pp'.status = "panic: index out of bounds"
       THEN pc' = "done" /\ fault' = pp'.status /\ result' = result
       ELSE pc' = "done" /\ result' = Some(Err(pp'.status)) /\ fault' = fault
    /\ UNCHANGED <<boardVars, playVars, genVars, fen, fields>>

\* parse_position returns Ok(pieces); parse_board lines 35-38
ParseBoardFinish ==
    /\ pc = "parse_position"
    /\ ci = Len(fields[1])
    /\ LET t == parse_turn_field(fields[2])
           c == parse_castle_field(IF Len(fields) >= 3 THEN Some(fields[3]) ELSE None)
       IN  result' = Some(IF t.tag = "Err" THEN t
                          ELSE IF c.tag = "Err" THEN c
                          ELSE Ok(Board_new(pp.pieces, t.val, c.val)))
    /\ pc' = "done"
    /\ UNCHANGED <<boardVars, playVars, genVars, fault, fen, fields, ci, pp, pprev>>

NextFen == SplitFields \/ PositionChar \/ ParseBoardFinish

SpecFen == InitFen /\ [][NextFen]_vars

-----------------------------------------------------------------------------
(* Move and its application (chess.rs 257-347).                            *)

new_ab(a, b) == [type |-> "AB", a |-> a, b |-> b]
new_castle(k) == [type |-> "Castle", kind |-> k]
new_en_passant(a, b, capture) ==
    [type |-> "EnPassant", a |-> a, b |-> b, capture |-> capture]
new_promotion(a, b, target) ==
    [type |-> "Promotion", a |-> a, b |-> b, target |-> target]

CastleKinds == {"WhiteKingSide", "WhiteQueenSide", "BlackKingSide", "BlackQueenSide"}

ab_move_keep_origin(ps, a, b) == [ps EXCEPT ![b] = ps[a]]

\* the ab_move! macro: board[b] = board[a]; board[a] = NO_PIECE
ab_move(ps, a, b) == [[ps EXCEPT ![b] = ps[a]] EXCEPT ![a] = NO_PIECE]

WHITE_KING_KING_MOVE  == new_ab(60, 62)
WHITE_KING_ROOK_MOVE  == new_ab(63, 61)
WHITE_QUEEN_KING_MOVE == new_ab(60, 58)
WHITE_QUEEN_ROOK_MOVE == new_ab(56, 59)
BLACK_KING_KING_MOVE  == new_ab(4, 6)
BLACK_KING_ROOK_MOVE  == new_ab(7, 5)
BLACK_QUEEN_KING_MOVE == new_ab(4, 2)
BLACK_QUEEN_ROOK_MOVE == new_ab(0, 3)

CastleKingMove(k) ==
    CASE k = "WhiteKingSide"  -> WHITE_KING_KING_MOVE
      [] k = "WhiteQueenSide" -> WHITE_QUEEN_KING_MOVE
      [] k = "BlackKingSide"  -> BLACK_KING_KING_MOVE
      [] k = "BlackQueenSide" -> BLACK_QUEEN_KING_MOVE

CastleRookMove(k) ==
    CASE k = "WhiteKingSide"  -> WHITE_KING_ROOK_MOVE
      [] k = "WhiteQueenSide" -> WHITE_QUEEN_ROOK_MOVE
      [] k = "BlackKingSide"  -> BLACK_KING_ROOK_MOVE
      [] k = "BlackQueenSide" -> BLACK_QUEEN_ROOK_MOVE

CastleKind_play_king_only(k, ps) ==
    ab_move(ps, CastleKingMove(k).a, CastleKingMove(k).b)

\* CastleKind::play: the king's relocation, then the rook's
CastleKind_play(k, ps) ==
    LET afterKing == ab_move(ps, CastleKingMove(k).a, CastleKingMove(k).b)
    IN  ab_move(afterKing, CastleRookMove(k).a, CastleRookMove(k).b)

\* Move::play: the pieces array after the move
Move_play(m, ps) ==
    CASE m.type = "AB" -> ab_move(ps, m.a, m.b)
      [] m.type = "Castle" -> CastleKind_play(m.kind, ps)
      [] m.type = "EnPassant" ->
            [ab_move(ps, m.a, m.b) EXCEPT ![m.capture] = NO_PIECE]
      [] m.type = "Promotion" ->
            [[ps EXCEPT ![m.a] = NO_PIECE] EXCEPT ![m.b] = m.target]

Move_capture_none_when_empty(m, ps) ==
    CASE m.type \in {"AB", "Promotion"} ->
            IF has(ps[m.b], NONE) THEN None ELSE Some(ps[m.b])
      [] m.type = "Castle" -> None
      [] m.type = "EnPassant" ->
            IF has(ps[m.capture], NONE) THEN None ELSE Some(ps[m.capture])

\* Move::capture
Move_capture(m, ps) ==
    CASE m.type \in {"AB", "Promotion"} ->
            LET cap == ps[m.b]
            IN  IF has(cap, NONE) THEN None ELSE Some(cap)
      [] m.type = "Castle" -> None
      [] m.type = "EnPassant" -> Some(ps[m.capture])

next_turn_defaulting(t) == IF t = BLACK THEN Some(WHITE) ELSE Some(BLACK)

\* the match of Board::play: the next turn, or None where the code panics
next_turn(t) ==
    CASE t = BLACK -> Some(WHITE)
      [] t = WHITE -> Some(BLACK)
      [] OTHER -> None

Snapshot == [pieces |-> pieces, turn |-> turn, en_passant_target |-> en_passant_target]

-----------------------------------------------------------------------------
(* One move applied to, or asked about, a board: Spec.                     *)

MkBoard(text, ep) ==
    LET b == parse_board(text).val
    IN  [pieces |-> b.pieces, turn |-> b.turn, en_passant_target |-> ep]

FenEnPassant ==
    <<"r","n","b","q","k","b","n","r","/","p","p","p","1","p","p","p","p","/",
      "8","/","8","/","3","p","P","3","/","8","/","P","P","P","P","1","P","P","P","/",
      "R","N","B","Q","K","B","N","R"," ","b">>

FenPromotion ==
    <<"4","k","3","/","P","7","/","8","/","8","/","8","/","8","/","7","p","/",
      "4","K","3"," ","w">>

\* boards the moves are applied to
ApplyBoards ==
    {MkBoard(STARTING_FEN, None), MkBoard(FenCastleReady, None),
     MkBoard(FenEnPassant, Some(44)), MkBoard(FenPromotion, None)}

EnPassantFrom     == {35, 28}
EnPassantTo       == {44, 20}
EnPassantCaptures == {36, 44, 20, 28, 60}
PromotionFrom     == {8, 12, 55}
PromotionTo       == {0, 4, 8, 63}
PromotionTargets  == {WHITE + QUEEN, WHITE + KNIGHT, BLACK + QUEEN}

ApplyMoves ==
    {new_ab(a, b) : a \in Squares, b \in Squares}
    \cup {new_castle(k) : k \in CastleKinds}
    \cup {new_en_passant(a, b, c) :
             a \in EnPassantFrom, b \in EnPassantTo, c \in EnPassantCaptures}
    \cup {new_promotion(a, b, t) :
             a \in PromotionFrom, b \in PromotionTo, t \in PromotionTargets}

Init ==
    /\ \E b \in ApplyBoards :
          /\ pieces = b.pieces /\ turn = b.turn
          /\ en_passant_target = b.en_passant_target
          /\ turn0 = b.turn
    /\ op = "none" /\ mv = None /\ before = None /\ capres = None
    /\ nplays = 0 /\ fault = ""
    /\ fen = <<>> /\ pc = "ready" /\ fields = <<>> /\ ci = 0
    /\ pp = PosStart /\ pprev = PosStart /\ result = None
    /\ gcolor = WHITE /\ gi = 0 /\ moves = <<>>

\* a call of Move::play(m, board)
MovePlay(m) ==
    /\ pc = "ready"
    /\ pieces' = Move_play(m, pieces)
    /\ op' = "Move::play" /\ mv' = Some(m) /\ before' = Some(Snapshot)
    /\ pc' = "done"
    /\ UNCHANGED <<turn, en_passant_target, capres, nplays, turn0, fault,
                   fenVars, genVars>>

\* a call of Move::capture(m, board)
MoveCapture(m) ==
    /\ pc = "ready"
    /\ capres' = Some(Move_capture(m, pieces))
    /\ op' = "Move::capture" /\ mv' = Some(m) /\ before' = Some(Snapshot)
    /\ pc' = "done"
    /\ UNCHANGED <<boardVars, nplays, turn0, fault, fenVars, genVars>>

Next ==
    \/ pc = "ready" /\ \E m \in ApplyMoves : MovePlay(m)
    \/ pc = "ready" /\ \E m \in ApplyMoves : MoveCapture(m)

Spec == Init /\ [][Next]_vars

-----------------------------------------------------------------------------
(* Claims about Move::play and Move::capture, checked under Spec.          *)

LastMove   == mv[1]
BoardBefore == before[1]

\* C1: after Move::play of AB{a, b} with a # b, square b holds the piece that
\* was on a, square a is empty, every other square, the en-passant target and
\* the turn are as before.
C1_PlainRelocation ==
    (op = "Move::play" /\ LastMove.type = "AB" /\ LastMove.a # LastMove.b) =>
        /\ pieces[LastMove.b] = BoardBefore.pieces[LastMove.a]
        /\ pieces[LastMove.a] = NO_PIECE
        /\ \A s \in Squares \ {LastMove.a, LastMove.b} :
              pieces[s] = BoardBefore.pieces[s]
        /\ en_passant_target = BoardBefore.en_passant_target
        /\ turn = BoardBefore.turn

\* a piece has been relocated onto a square held by a different piece, on a
\* board that has an en-passant target
C1_Witness ==
    /\ op = "Move::play" /\ LastMove.type = "AB" /\ LastMove.a # LastMove.b
    /\ BoardBefore.pieces[LastMove.a] # NO_PIECE
    /\ BoardBefore.pieces[LastMove.b] # NO_PIECE
    /\ BoardBefore.pieces[LastMove.b] # BoardBefore.pieces[LastMove.a]
    /\ en_passant_target # None
    /\ pieces[LastMove.b] = BoardBefore.pieces[LastMove.a]

\* the four castle kinds as the claim lists them: king from, king to, rook
\* from, rook to
C2_Table(k) ==
    CASE k = "WhiteKingSide"  -> <<60, 62, 63, 61>>
      [] k = "WhiteQueenSide" -> <<60, 58, 56, 59>>
      [] k = "BlackKingSide"  -> <<4, 6, 7, 5>>
      [] k = "BlackQueenSide" -> <<4, 2, 0, 3>>

\* C2: after Move::play of a Castle move both relocations have happened: the
\* king's origin piece stands two squares away, the rook's origin piece on
\* the square passed over, both origins are empty, no other square changed.
C2_CastleBothRelocations ==
    (op = "Move::play" /\ LastMove.type = "Castle") =>
        LET t == C2_Table(LastMove.kind)
        IN  /\ pieces[t[2]] = BoardBefore.pieces[t[1]]
            /\ pieces[t[4]] = BoardBefore.pieces[t[3]]
            /\ pieces[t[1]] = NO_PIECE /\ pieces[t[3]] = NO_PIECE
            /\ \A s \in Squares \ {t[1], t[2], t[3], t[4]} :
                  pieces[s] = BoardBefore.pieces[s]
            /\ (t[2] - t[1] = 2 \/ t[1] - t[2] = 2)
            /\ 2 * t[4] = t[1] + t[2]

\* white has castled king-side with king and rook on their home squares
C2_Witness ==
    /\ op = "Move::play" /\ LastMove.type = "Castle"
    /\ LastMove.kind = "WhiteKingSide"
    /\ BoardBefore.pieces[60] = WHITE + KING /\ BoardBefore.pieces[63] = WHITE + ROOK
    /\ pieces[62] = WHITE + KING /\ pieces[61] = WHITE + ROOK
    /\ pieces[60] = NO_PIECE /\ pieces[63] = NO_PIECE

C3_BoardUnchanged ==
    /\ pieces = BoardBefore.pieces /\ turn = BoardBefore.turn
    /\ en_passant_target = BoardBefore.en_passant_target

C3_NonEnPassant ==
    /\ LastMove.type = "Castle" => capres[1] = None
    /\ LastMove.type \in {"AB", "Promotion"} =>
          capres[1] = IF BoardBefore.pieces[LastMove.b] = NO_PIECE
                      THEN None
                      ELSE Some(BoardBefore.pieces[LastMove.b])

\* C3 as claimed: Move::capture leaves the board alone; None for a castle;
\* for AB and Promotion None on an empty destination, else its occupant; for
\* EnPassant the occupant of the capture square, which is a pawn.
C3_CaptureAsClaimed ==
    (op = "Move::capture") =>
        /\ C3_BoardUnchanged
        /\ C3_NonEnPassant
        /\ LastMove.type = "EnPassant" =>
              /\ capres[1] = Some(BoardBefore.pieces[LastMove.capture])
              /\ kind(BoardBefore.pieces[LastMove.capture]) = PAWN

\* C3 amended: as claimed, except that for EnPassant the result is the
\* occupant of the capture square whatever it is (NO_PIECE when it is empty).
C3_Capture ==
    (op = "Move::capture") =>
        /\ C3_BoardUnchanged
        /\ C3_NonEnPassant
        /\ LastMove.type = "EnPassant" =>
              capres[1] = Some(BoardBefore.pieces[LastMove.capture])

\* Move::capture was asked about an en-passant move whose capture square is
\* empty, and answered Some(NO_PIECE)
C3_Witness ==
    /\ op = "Move::capture" /\ LastMove.type = "EnPassant"
    /\ BoardBefore.pieces[LastMove.capture] = NO_PIECE
    /\ capres[1] = Some(NO_PIECE)

-----------------------------------------------------------------------------
(* Claims about FEN parsing, checked under SpecFen.                        *)

Returned == pc = "done" /\ result # None

\* C5: parsing returns a Board only when the running square index is exactly
\* 64 once the whole placement field has been consumed.
C5_BoardOnlyAtIndex64 ==
    (Returned /\ result[1].tag = "Ok") => pp.index = NUM_SQUARES

\* C6: for every text, parsing ends by returning a Board or an error value;
\* no text ends it with a fatal fault.
C6_NoFatalFault ==
    (pc = "done") =>
        /\ fault = ""
        /\ result # None
        /\ result[1].tag \in {"Ok", "Err"}

C7_Letters == {"K", "Q", "k", "q"}

\* the bit of each right: K white king-side, Q white queen-side, k black
\* king-side, q black queen-side
C7_Bit(l) ==
    CASE l = "K" -> 8
      [] l = "Q" -> 4
      [] l = "k" -> 2
      [] l = "q" -> 1

\* parsing ended, and neither the placement nor the turn field was refused
C7_CastleFieldDecoded ==
    /\ pc = "done" /\ fault = "" /\ Len(fields) >= 2
    /\ pp.status = "run" /\ ci = Len(fields[1])
    /\ fields[2] \in {<<"w">>, <<"b">>}

\* C7: an absent third field gives all four rights, "-" gives none; otherwise
\* a repeated letter or a character outside KQkq is an error, and else the
\* bit of a right is set exactly when its letter occurs.
C7_CastleDecoding ==
    C7_CastleFieldDecoded =>
        LET r == result[1]
        IN  IF Len(fields) < 3
            THEN r.tag = "Ok" /\ r.val.castle_rights = 15
            ELSE LET f == fields[3]
                 IN  IF f = <<"-">>
                     THEN r.tag = "Ok" /\ r.val.castle_rights = 0
                     ELSE IF \/ \E i \in 1 .. Len(f) : f[i] \notin C7_Letters
                             \/ \E i, j \in 1 .. Len(f) : i # j /\ f[i] = f[j]
                     THEN r.tag = "Err"
                     ELSE /\ r.tag = "Ok"
                          /\ r.val.castle_rights \in 0 .. 15
                          /\ \A l \in C7_Letters :
                                (BitAnd(r.val.castle_rights, C7_Bit(l)) # 0)
                                    <=> (\E i \in 1 .. Len(f) : f[i] = l)

\* the field "Kq" has been decoded to white king-side plus black queen-side
C7_Witness ==
    /\ C7_CastleFieldDecoded /\ Len(fields) >= 3
    /\ fields[3] = <<"K", "q">>
    /\ result[1].tag = "Ok" /\ result[1].val.castle_rights = 9

-----------------------------------------------------------------------------
(* Board::play called repeatedly on one board: SpecPlay.                   *)

\* Board.turn is a public u16: besides the two colors a parsed board has,
\* values a caller can have stored there
CorruptTurns == {0, WHITE + BLACK, PAWN}

PlayBoards == {MkBoard(STARTING_FEN, None), MkBoard(FenCastleReady, None)}

PlayMoves ==
    {new_ab(52, 36), new_ab(12, 28), new_ab(62, 45), new_ab(36, 28), new_ab(60, 60)}
    \cup {new_castle(k) : k \in CastleKinds}
    \cup {new_en_passant(36, 27, 35), new_promotion(8, 0, WHITE + QUEEN)}

InitPlay ==
    /\ \E b \in PlayBoards :
          /\ pieces = b.pieces
          /\ en_passant_target = b.en_passant_target
    /\ turn \in {WHITE, BLACK} \cup CorruptTurns
    /\ turn0 = turn
    /\ op = "none" /\ mv = None /\ before = None /\ capres = None
    /\ nplays = 0 /\ fault = ""
    /\ fen = <<>> /\ pc = "ready" /\ fields = <<>> /\ ci = 0
    /\ pp = PosStart /\ pprev = PosStart /\ result = None
    /\ gcolor = WHITE /\ gi = 0 /\ moves = <<>>

\* Board::play(m): m.play(self), then the turn flips or the call panics
BoardPlay(m) ==
    /\ pc = "ready"
    /\ fault = ""
    /\ nplays < MaxPlays
    /\ pieces' = Move_play(m, pieces)
    /\ nplays' = nplays + 1
    /\ op' = "Board::play" /\ mv' = Some(m) /\ before' = Some(Snapshot)
    /\ IF next_turn(turn) = None
       THEN /\ fault' = "illegal board state: not a color"
            /\ turn' = turn
       ELSE /\ turn' = next_turn(turn)[1]
            /\ fault' = fault
    /\ UNCHANGED <<en_passant_target, capres, turn0, pc, fenVars, genVars>>

NextPlay == \E m \in PlayMoves : BoardPlay(m)

SpecPlay == InitPlay /\ [][NextPlay]_vars

C4_Opposite(t) == IF t = WHITE THEN BLACK ELSE WHITE

\* C4: on a board whose turn is a color every Board::play applies the move
\* and flips the turn, so after n plays it is the initial turn for even n and
\* the other color for odd n; on a board whose turn is not a color the first
\* play ends in a fatal fault and the turn is still the value it was.
C4_TurnAlternates ==
    /\ turn0 \in {WHITE, BLACK} =>
          /\ fault = ""
          /\ turn = IF nplays % 2 = 0 THEN turn0 ELSE C4_Opposite(turn0)
          /\ op = "Board::play" =>
                /\ turn = C4_Opposite(BoardBefore.turn)
                /\ LastMove.type = "AB" /\ LastMove.a # LastMove.b =>
                      /\ pieces[LastMove.b] = BoardBefore.pieces[LastMove.a]
                      /\ pieces[LastMove.a] = NO_PIECE
    /\ turn0 \notin {WHITE, BLACK} =>
          /\ turn = turn0
          /\ nplays <= 1
          /\ nplays = 1 <=> fault # ""

\* two plays have been made and the turn is back where it started
C4_Witness ==
    /\ turn0 \in {WHITE, BLACK} /\ nplays = 2 /\ turn = turn0
    /\ \E s \in Squares : \E b \in PlayBoards : pieces[s] # b.pieces[s]

-----------------------------------------------------------------------------
(* Move generation (move_gen.rs).                                          *)

Generated(ms) == [moves |-> ms, fault |-> ""]
Panicked(msg) == [moves |-> <<>>, fault |-> msg]

\* baked_moves::KNIGHT_MOVES[pos]: the knight offsets that stay on the board,
\* here in ascending order of the destination square
KnightOffsets ==
    {<<1, 2>>, <<2, 1>>, <<2, -1>>, <<1, -2>>, <<-1, -2>>, <<-2, -1>>, <<-2, 1>>, <<-1, 2>>}

KnightTargets(pos) ==
    {square_index(file_of(pos) + o[1], rank_of(pos) + o[2]) : o \in
        {o \in KnightOffsets : /\ file_of(pos) + o[1] \in 0 .. 7
                               /\ rank_of(pos) + o[2] \in 0 .. 7}}

RECURSIVE SortedSeq(_)
SortedSeq(S) ==
    IF S = {} THEN <<>>
    ELSE LET m == CHOOSE x \in S : \A y \in S : x <= y
         IN  <<m>> \o SortedSeq(S \ {m})

KNIGHT_MOVES(pos) == SortedSeq(KnightTargets(pos))

\* the capture arm of pawn_gen! for one side: cap is the diagonal square
PawnCapture(pos, cap, col, ps, ep) ==
    IF (ps[cap] # NO_PIECE /\ color(ps[cap]) # col) \/ ep = Some(cap)
    THEN <<new_ab(pos, cap)>>
    ELSE <<>>

pawn_gen_no_double(sign, homeRank, pos, col, ps, ep) ==
    IF pos \in WHITE_BACK_RANK \/ pos \in BLACK_BACK_RANK
    THEN Panicked("a pawn is in a back rank!")
    ELSE Generated(
            (IF ps[pos + sign * NUM_FILES] = NO_PIECE
             THEN <<new_ab(pos, pos + sign * NUM_FILES)>> ELSE <<>>)
            \o (IF pos % 8 # 0
                THEN PawnCapture(pos, pos - 1 + sign * NUM_FILES, col, ps, ep) ELSE <<>>)
            \o (IF pos % 8 # 7
                THEN PawnCapture(pos, pos + 1 + sign * NUM_FILES, col, ps, ep) ELSE <<>>))

\* the pawn_gen! macro; sign is -1 for its `-` and 1 for its `+`
pawn_gen(sign, homeRank, pos, col, ps, ep) ==
    IF pos \in WHITE_BACK_RANK \/ pos \in BLACK_BACK_RANK
    THEN Panicked("a pawn is in a back rank!")
    ELSE LET target1 == pos + sign * NUM_FILES
             target2 == target1 + sign * NUM_FILES
             single  == IF ps[target1] = NO_PIECE
                        THEN <<new_ab(pos, target1)>> ELSE <<>>
             double  == IF pos \in homeRank
                        THEN IF ps[target2] = NO_PIECE
                             THEN <<new_ab(pos, target2)>> ELSE <<>>
                        ELSE <<>>
             capLeft == IF pos % 8 # 0
                        THEN PawnCapture(pos, pos - 1 + sign * NUM_FILES, col, ps, ep)
                        ELSE <<>>
             capRight == IF pos % 8 # 7
                         THEN PawnCapture(pos, pos + 1 + sign * NUM_FILES, col, ps, ep)
                         ELSE <<>>
         IN  Generated(single \o double \o capLeft \o capRight)

\* gen_rook_moves, first loop: i from `i` up to NUM_RANKS - rank, breaking at
\* the first square of the rook's own color
RECURSIVE RookUpwards(_, _, _, _)
RookUpwards(i, pos, my_color, ps) ==
    IF i >= NUM_RANKS - rank_of(pos) THEN <<>>
    ELSE LET target == square_index(file_of(pos), rank_of(pos) + i)
         IN  IF color(ps[target]) # my_color
             THEN <<new_ab(pos, target)>> \o RookUpwards(i + 1, pos, my_color, ps)
             ELSE <<>>

\* gen_rook_moves, second loop: rank iterations, each looking at
\* square_index(file, rank), with no break
RookDownwards(pos, my_color, ps) ==
    LET target == square_index(file_of(pos), rank_of(pos))
    IN  IF color(ps[target]) # my_color
        THEN [i \in 1 .. rank_of(pos) |-> new_ab(pos, target)]
        ELSE <<>>

gen_rook_moves(pos, my_color, ps) ==
    RookUpwards(0, pos, my_color, ps) \o RookDownwards(pos, my_color, ps)

gen_pseudo_legal_for_piece(p, col, pos, ps, ep) ==
    CASE kind(p) = PAWN ->
            IF col = WHITE
            THEN pawn_gen(-1, WHITE_PAWN_RANK, pos, col, ps, ep)
            ELSE pawn_gen(1, BLACK_PAWN_RANK, pos, col, ps, ep)
      [] kind(p) = KNIGHT ->
            Generated(SelectSeq([i \in 1 .. Len(KNIGHT_MOVES(pos)) |->
                                    new_ab(pos, KNIGHT_MOVES(pos)[i])],
                                LAMBDA m : color(ps[m.b]) # col))
      [] kind(p) = BISHOP -> Generated(<<>>)
      [] kind(p) = ROOK -> Generated(gen_rook_moves(pos, col, ps))
      [] kind(p) = QUEEN -> Generated(<<>>)
      [] kind(p) = KING -> Generated(<<>>)
      [] OTHER -> Panicked("illegal board state: cannot generate moves for unknown piece")

-----------------------------------------------------------------------------
(* gen_pseudo_legal on one board, square by square: SpecGen.               *)

Place(ps, sq, p) == [ps EXCEPT ![sq] = p]

\* boards without the piece under study; the second has the en-passant
\* target a black double push d7-d5 leaves
SceneryA ==
    [pieces |-> parse_position(<<"4","k","3","/","8","/","4","n","3","/","3","P","4","/",
                                 "3","p","4","/","4","N","3","/","8","/","4","K","3">>).pieces,
     en_passant_target |-> None]

SceneryB ==
    [pieces |-> parse_position(<<"4","k","3","/","8","/","8","/","3","p","4","/",
                                 "6","P","1","/","8","/","8","/","4","K","3">>).pieces,
     en_passant_target |-> Some(19)]

Sceneries == {SceneryA, SceneryB}

StudiedPieces == {WHITE + ROOK, BLACK + ROOK, WHITE + PAWN, BLACK + PAWN}

StartBoard == MkBoard(STARTING_FEN, None)

GenBoards ==
    {[pieces |-> StartBoard.pieces, en_passant_target |-> None]}
    \cup {[pieces |-> Place(sc.pieces, sq, p), en_passant_target |-> sc.en_passant_target] :
             sc \in Sceneries, sq \in Squares, p \in StudiedPieces}

InitGen ==
    /\ \E b \in GenBoards :
          /\ pieces = b.pieces
          /\ en_passant_target = b.en_passant_target
    /\ gcolor \in {WHITE, BLACK}
    /\ turn = gcolor /\ turn0 = gcolor
    /\ op = "none" /\ mv = None /\ before = None /\ capres = None
    /\ nplays = 0 /\ fault = ""
    /\ fen = <<>> /\ pc = "gen_pseudo_legal" /\ fields = <<>> /\ ci = 0
    /\ pp = PosStart /\ pprev = PosStart /\ result = None
    /\ gi = 0 /\ moves = <<>>

\* one iteration of gen_pseudo_legal's loop over the squares
GenSquare ==
    /\ pc = "gen_pseudo_legal"
    /\ gi < NUM_SQUARES
    /\ IF color(pieces[gi]) = gcolor
       THEN LET r == gen_pseudo_legal_for_piece(pieces[gi], gcolor, gi, pieces,
                                                en_passant_target)
            IN  IF r.fault # ""
                THEN fault' = r.fault /\ pc' = "done" /\ UNCHANGED <<moves, gi>>
                ELSE /\ moves' = moves \o r.moves
                     /\ gi' = gi + 1
                     /\ UNCHANGED <<fault, pc>>
       ELSE gi' = gi + 1 /\ UNCHANGED <<moves, fault, pc>>
    /\ UNCHANGED <<boardVars, playVars, fenVars, gcolor>>

\* gen_pseudo_legal returns moves
GenReturn ==
    /\ pc = "gen_pseudo_legal"
    /\ gi = NUM_SQUARES
    /\ pc' = "done"
    /\ UNCHANGED <<boardVars, playVars, fenVars, genVars, fault>>

NextGen == GenSquare \/ GenReturn

SpecGen == InitGen /\ [][NextGen]_vars

-----------------------------------------------------------------------------
(* Claims about move generation, checked under SpecGen.                    *)

GenDone == pc = "done" /\ fault = ""

MoveIndices == 1 .. Len(moves)

\* the squares the generated moves from pos go to
DestinationsFrom(pos) == {moves[i].b : i \in {j \in MoveIndices : moves[j].a = pos}}

AtStart == pieces = StartBoard.pieces /\ en_passant_target = None /\ gcolor = WHITE

\* C8: on the starting board gen_pseudo_legal(WHITE) returns exactly 20 moves:
\* 8 single pawn pushes, 8 double pawn pushes, 4 knight moves, and nothing for
\* rook, bishop, queen or king.
C8_StartingPosition ==
    (GenDone /\ AtStart) =>
        /\ Len(moves) = 20
        /\ \A i \in MoveIndices : moves[i].type = "AB"
        /\ {moves[i].a : i \in {j \in MoveIndices : moves[j].b = moves[j].a - 8}}
              = WHITE_PAWN_RANK
        /\ Cardinality({i \in MoveIndices : moves[i].b = moves[i].a - 8}) = 8
        /\ {moves[i].a : i \in {j \in MoveIndices : moves[j].b = moves[j].a - 16}}
              = WHITE_PAWN_RANK
        /\ Cardinality({i \in MoveIndices : moves[i].b = moves[i].a - 16}) = 8
        /\ Cardinality({i \in MoveIndices : pieces[moves[i].a] = WHITE + KNIGHT}) = 4
        /\ \A i \in MoveIndices :
              kind(pieces[moves[i].a]) \notin {ROOK, BISHOP, QUEEN, KING}

\* generation for white on the starting board has returned its 20 moves
C8_Witness == GenDone /\ AtStart /\ Len(moves) = 20

C9_Directions == {<<0, -1>>, <<0, 1>>, <<1, 0>>, <<-1, 0>>}

C9_OnBoard(pos, d, k) ==
    /\ file_of(pos) + k * d[1] \in 0 .. 7
    /\ rank_of(pos) + k * d[2] \in 0 .. 7

C9_Square(pos, d, k) ==
    square_index(file_of(pos) + k * d[1], rank_of(pos) + k * d[2])

\* the squares a rook of color col on pos slides to: along each direction the
\* empty squares up to the first occupied one, and that one if it is an enemy
C9_Expected(pos, col) ==
    {C9_Square(pos, dk[1], dk[2]) : dk \in
        {x \in C9_Directions \X (1 .. 7) :
            /\ C9_OnBoard(pos, x[1], x[2])
            /\ \A j \in 1 .. (x[2] - 1) : pieces[C9_Square(pos, x[1], j)] = NO_PIECE
            /\ \/ pieces[C9_Square(pos, x[1], x[2])] = NO_PIECE
               \/ color(pieces[C9_Square(pos, x[1], x[2])]) # col}}

\* C9: the destinations generated for a rook are exactly the squares it
\* slides to along the four orthogonal directions.
C9_RookDestinations ==
    GenDone =>
        \A pos \in Squares :
            (kind(pieces[pos]) = ROOK /\ color(pieces[pos]) = gcolor) =>
                DestinationsFrom(pos) = C9_Expected(pos, gcolor)

\* C10: a double push is generated only from the home rank with both the
\* intermediate and the destination square empty; with the square in front
\* occupied neither push is generated.
C10_PawnPushes ==
    GenDone =>
        \A pos \in Squares :
            (kind(pieces[pos]) = PAWN /\ color(pieces[pos]) = gcolor) =>
                LET sign  == IF gcolor = WHITE THEN -1 ELSE 1
                    home  == IF gcolor = WHITE THEN WHITE_PAWN_RANK ELSE BLACK_PAWN_RANK
                    front == pos + sign * 8
                    far   == pos + sign * 16
                IN  /\ far \in DestinationsFrom(pos) =>
                          /\ pos \in home
                          /\ pieces[front] = NO_PIECE
                          /\ pieces[far] = NO_PIECE
                    /\ pieces[front] # NO_PIECE =>
                          /\ front \notin DestinationsFrom(pos)
                          /\ far \notin DestinationsFrom(pos)

C11_OppositeBackRank == IF gcolor = WHITE THEN BLACK_BACK_RANK ELSE WHITE_BACK_RANK

\* C11: every generated pawn move whose destination lies on the opposite
\* back rank is a Promotion move, never a plain AB relocation.
C11_BackRankMovesPromote ==
    GenDone =>
        \A i \in MoveIndices :
            (/\ kind(pieces[moves[i].a]) = PAWN
             /\ color(pieces[moves[i].a]) = gcolor
             /\ moves[i].b \in C11_OppositeBackRank)
                => moves[i].type = "Promotion"

\* the on-board diagonal-forward squares of a pawn of color col on pos
C12_Diagonals(pos, col) ==
    LET fwd == IF col = WHITE THEN -8 ELSE 8
    IN  {d \in Squares :
            \/ file_of(pos) # 0 /\ d = pos + fwd - 1
            \/ file_of(pos) # 7 /\ d = pos + fwd + 1}

\* an en-passant capture from pos to d is among the generated moves
C12_EnPassantEmitted(pos, d) ==
    \E i \in MoveIndices :
        /\ moves[i].type = "EnPassant"
        /\ moves[i].a = pos /\ moves[i].b = d
        /\ moves[i].capture # d

\* C12: for a pawn on p an en-passant capture to d is generated exactly when
\* d is one of p's on-board diagonal-forward squares and is the board's
\* en-passant target; with no target none is generated.
C12_EnPassantGenerated ==
    GenDone =>
        \A pos \in Squares :
            (kind(pieces[pos]) = PAWN /\ color(pieces[pos]) = gcolor) =>
                \A d \in Squares :
                    C12_EnPassantEmitted(pos, d)
                        <=> (d \in C12_Diagonals(pos, gcolor)
                             /\ en_passant_target = Some(d))

-----------------------------------------------------------------------------
(* The digit arm of the placement decoder, checked under SpecFen.          *)

C13_Value(c) ==
    CASE c = "0" -> 0 [] c = "1" -> 1 [] c = "2" -> 2 [] c = "3" -> 3 [] c = "4" -> 4
      [] c = "5" -> 5 [] c = "6" -> 6 [] c = "7" -> 7 [] c = "8" -> 8 [] c = "9" -> 9

C13_Digits == {"0", "1", "2", "3", "4", "5", "6", "7", "8", "9"}

\* C13: a digit met at running index i is accepted only if it is one of 1..8
\* and its value n is at most 8 - (i mod 8); then the index advances by n and
\* no square is written.  Every other digit makes parsing return an error.
C13_DigitHandling ==
    (ci >= 1 /\ fields[1][ci] \in C13_Digits) =>
        LET n == C13_Value(fields[1][ci])
            i == pprev.index
        IN  IF n \in 1 .. 8 /\ n <= 8 - (i % 8)
            THEN /\ pp.status = "run"
                 /\ pp.index = i + n
                 /\ pp.pieces = pprev.pieces
            ELSE /\ Returned
                 /\ result[1].tag = "Err"

====
